---- MODULE Spec2Model ----
(***************************************************************************)
(* Model of the VALORANT props dashboard, src/streamlit_app.py: the        *)
(* prediction engine (AdvancedPredictionModel.predict_player_line) with    *)
(* the history lookup it calls (ValorantDataService.get_player_history),   *)
(* the conversion of pasted Underdog lines into player records, and the    *)
(* places that display a prediction.                                       *)
(*                                                                         *)
(* Number encoding.  Python floats are modelled in fixed point:            *)
(*   kills, averages, deviations rounded by round(x, 1) : tenths of a kill *)
(*   weighted_avg                                   : hundredths of a kill *)
(*   adjusted_mu, final_mu, sigma, line             : 1/10000 of a kill    *)
(*   ratings, kill_mod                              : hundredths           *)
(*   probabilities and edge                         : thousandths          *)
(* A float that is NaN is the record NaN; a Python None is the record None.*)
(*                                                                         *)
(* Lines 309-314 of the source lack one closing parenthesis each.  The two *)
(* one-character repairs, get(next(gen, ratings["Default"])) and           *)
(* get(next(gen), ratings["Default"]), give the same results: a name that  *)
(* contains a key of team_ratings gets that key's rating, and any other    *)
(* name raises inside the try block (TypeError on None / x for the first,  *)
(* StopIteration for the second).  TeamRating models that common result.   *)
(***************************************************************************)
EXTENDS Integers, Sequences, FiniteSets, TLC

VARIABLES player_data, match_context, history, prediction, pc,
          other_data, other_history, other_prediction,
          record, shown,
          profiles, current_match, predictions, previous, last_load,
          selections, cache, chat_history,
          rosters, lines, scraped

vars == <<player_data, match_context, history, prediction, pc,
          other_data, other_history, other_prediction, record, shown,
          profiles, current_match, predictions, previous, last_load,
          selections, cache, chat_history,
          rosters, lines, scraped>>

calcVars == <<player_data, match_context, history, prediction, pc>>
pairVars == <<other_data, other_history, other_prediction>>
viewVars == <<record, shown>>
appVars  == <<profiles, current_match, predictions, previous, last_load,
              selections, cache, chat_history>>
scrapeVars == <<rosters, lines, scraped>>

-----------------------------------------------------------------------------
(* Bounds of the model *)

\* most player-line blocks on one page of lines
MaxItems == 2

\* longest list of recent matches a profile page yields (the code reads at most 10)
MaxMatches == 6

-----------------------------------------------------------------------------
(* Arithmetic helpers *)

Abs(x) == IF x < 0 THEN -x ELSE x

Min(a, b) == IF a < b THEN a ELSE b

Max(a, b) == IF a > b THEN a ELSE b

\* Python round(): nearest integer to n/d (d > 0), ties to the even one
RoundHalfEven(n, d) ==
    LET q == n \div d
        r == n % d
    IN  IF 2 * r < d THEN q
        ELSE IF 2 * r > d THEN q + 1
        ELSE IF q % 2 = 0 THEN q ELSE q + 1

\* Python int(): n/d (d > 0) truncated towards zero
IntTrunc(n, d) == IF n >= 0 THEN n \div d ELSE -((-n) \div d)

RECURSIVE SeqSum(_)
SeqSum(s) == IF s = <<>> THEN 0 ELSE Head(s) + SeqSum(Tail(s))

RECURSIVE SeqSumSq(_)
SeqSumSq(s) == IF s = <<>> THEN 0 ELSE Head(s) * Head(s) + SeqSumSq(Tail(s))

RECURSIVE SeqMaxAbs(_)
SeqMaxAbs(s) == IF s = <<>> THEN 0 ELSE Max(Abs(Head(s)), SeqMaxAbs(Tail(s)))

\* s[:n]
Prefix(s, n) == SubSeq(s, 1, Min(n, Len(s)))

\* dict.get(key, default) and "key in dict"
Has(d, k) == k \in DOMAIN d

Get(d, k, default) == IF k \in DOMAIN d THEN d[k] ELSE default

None == [ok |-> FALSE]

NaN == [nan |-> TRUE]

Num(v) == [nan |-> FALSE, val |-> v]

-----------------------------------------------------------------------------
(* ValorantDataService *)

\* np.mean(kills), then round(., 1): tenths
MeanRounded(ks) == RoundHalfEven(SeqSum(ks), Len(ks))

\* np.std(kills) (population deviation), then round(., 1): tenths
StdRounded(ks) ==
    LET n == Len(ks)
        v == n * SeqSumSq(ks) - SeqSum(ks) * SeqSum(ks)
    IN  CHOOSE r \in 0..SeqMaxAbs(ks) :
            /\ (2 * r + 1) * (2 * r + 1) * n * n > 4 * v
            /\ r = 0 \/ (2 * r - 1) * (2 * r - 1) * n * n <= 4 * v

\* the dict get_player_history returns for a profile whose table lists kills ks
HistoryOf(ks) ==
    LET avg_kills  == IF ks # <<>> THEN MeanRounded(ks) ELSE 0
        kill_std   == IF ks # <<>> THEN StdRounded(ks) ELSE 0
        last_5_avg == IF Len(ks) >= 5 THEN MeanRounded(Prefix(ks, 5)) ELSE avg_kills
    IN  [ok |-> TRUE,
         avg_kills |-> avg_kills,
         kill_std |-> kill_std,
         last_5_avg |-> last_5_avg,
         last_5_kills |-> Prefix(ks, 5),
         primary_role |-> "Flex",
         recent_matches |-> ks,
         matches_analyzed |-> Len(ks)]

\* _agent_to_role: the agent names of the model, by the substring each contains
AgentToRole(agent) ==
    CASE agent \in {"Jett", "Phoenix", "Raze", "Reyna", "Neon", "Yoru"} -> "Duelist"
      [] agent \in {"Sova", "Breach", "KAY/O", "Skye", "Fade", "Gekko"} -> "Initiator"
      [] agent \in {"Omen", "Viper", "Brimstone", "Astra", "Harbor"} -> "Controller"
      [] agent \in {"Sage", "Killjoy", "Cypher", "Chamber", "Deadlock"} -> "Sentinel"
      [] OTHER -> "Flex"

-----------------------------------------------------------------------------
(* AdvancedPredictionModel.__init__ *)

PositionNames == {"Duelist", "Initiator", "Controller", "Sentinel", "Flex"}

\* position_factors: kill_mod in hundredths, sigma in tenths
PositionFactors(p) ==
    CASE p = "Duelist"    -> [kill_mod |-> 115, sigma |-> 35]
      [] p = "Initiator"  -> [kill_mod |-> 105, sigma |-> 30]
      [] p = "Controller" -> [kill_mod |-> 95,  sigma |-> 25]
      [] p = "Sentinel"   -> [kill_mod |-> 90,  sigma |-> 20]
      [] p = "Flex"       -> [kill_mod |-> 100, sigma |-> 30]

\* team_ratings in dict order: hundredths
RatingKeys == <<"Team Liquid", "Fnatic", "DRX", "LOUD", "Optic Gaming", "Default">>

TeamRatings(k) ==
    CASE k = "Team Liquid"  -> 115
      [] k = "Fnatic"       -> 110
      [] k = "DRX"          -> 108
      [] k = "LOUD"         -> 105
      [] k = "Optic Gaming" -> 103
      [] k = "Default"      -> 100

\* "k in name" for the team names of the model: a name is a key of
\* team_ratings, or "Fnatic Rising", which contains the key "Fnatic", or
\* contains no key
InName(k, name) == k = name \/ (k = "Fnatic" /\ name = "Fnatic Rising")

\* the rating looked up for a team name (lines 309-314): the first key, in dict
\* order, contained in the name; None when the lookup raises
TeamRating(name) ==
    LET hits == {i \in 1..Len(RatingKeys) : InName(RatingKeys[i], name)}
    IN  IF hits = {} THEN None
        ELSE [ok |-> TRUE,
              rating |-> TeamRatings(RatingKeys[CHOOSE i \in hits : \A j \in hits : i <= j])]

-----------------------------------------------------------------------------
(* AdvancedPredictionModel.predict_player_line, stage by stage *)

\* lines 284-286
PositionOf(pd) ==
    IF Has(pd, "agent") THEN AgentToRole(pd["agent"]) ELSE Get(pd, "position", "Flex")

\* line 288
PosData(pd) ==
    IF PositionOf(pd) \in PositionNames THEN PositionFactors(PositionOf(pd))
    ELSE PositionFactors("Flex")

\* lines 291-296: the fetched history, or the fallback built from the player's kills
HistoryUsed(pd, h) ==
    IF h.ok THEN h
    ELSE [ok |-> TRUE,
          avg_kills |-> Get(pd, "kills", 200),
          kill_std |-> 30,
          last_5_avg |-> Get(pd, "kills", 200),
          primary_role |-> PositionOf(pd)]

\* line 299 with the two weights exchanged: 0.3 for the recent average
RecentWeightSwapped(pd, h) ==
    IF Get(HistoryUsed(pd, h), "matches_analyzed", 0) >= 5 THEN 3 ELSE 5

\* line 299: recent_weight, in tenths
RecentWeight(pd, h) ==
    IF Get(HistoryUsed(pd, h), "matches_analyzed", 0) >= 5 THEN 7 ELSE 5

\* lines 300-302 with the historical term subtracted
WeightedAvgMinus(pd, h) ==
    HistoryUsed(pd, h).last_5_avg * RecentWeight(pd, h)
        - HistoryUsed(pd, h).avg_kills * (10 - RecentWeight(pd, h))

\* lines 300-302: weighted_avg, in hundredths of a kill
WeightedAvg(pd, h) ==
    HistoryUsed(pd, h).last_5_avg * RecentWeight(pd, h)
        + HistoryUsed(pd, h).avg_kills * (10 - RecentWeight(pd, h))

\* line 305: adjusted_mu, in 1/10000 of a kill
AdjustedMu(pd, h) == WeightedAvg(pd, h) * PosData(pd).kill_mod

\* lines 316-317 with the strength ratio inverted: team / opp
FinalMuInverted(pd, ctx, h) ==
    LET opp  == TeamRating(ctx.opponent).rating
        team == TeamRating(pd.team).rating
    IN  (AdjustedMu(pd, h) * (23 * opp - 3 * team)) \div (20 * opp)

\* lines 316-317: final_mu = adjusted_mu * (1 + (1 - opp/team) * 0.15)
\*                         = adjusted_mu * (23 * team - 3 * opp) / (20 * team)
FinalMu(pd, ctx, h) ==
    LET opp  == TeamRating(ctx.opponent).rating
        team == TeamRating(pd.team).rating
    IN  (AdjustedMu(pd, h) * (23 * team - 3 * opp)) \div (20 * team)

\* line 321 without the test strength_ratio < 0.9
MatchupVolatilityOneSided(pd, ctx) ==
    LET opp  == TeamRating(ctx.opponent).rating
        team == TeamRating(pd.team).rating
    IN  IF 10 * opp > 11 * team THEN 12 ELSE 10

\* line 321: matchup_volatility, in tenths (strength_ratio = opp / team)
MatchupVolatility(pd, ctx) ==
    LET opp  == TeamRating(ctx.opponent).rating
        team == TeamRating(pd.team).rating
    IN  IF 10 * opp < 9 * team \/ 10 * opp > 11 * team THEN 12 ELSE 10

\* lines 320-322: sigma = pos sigma * consistency_factor * matchup_volatility,
\* in 1/10000 of a kill
Sigma(pd, ctx, h) ==
    LET hist == HistoryUsed(pd, h)
    IN  IF hist.avg_kills > 0
        THEN (PosData(pd).sigma * MatchupVolatility(pd, ctx) * 100 * hist.kill_std)
                 \div hist.avg_kills
        ELSE PosData(pd).sigma * MatchupVolatility(pd, ctx) * 100

\* line 325 with the player's kills, the betting line of a pasted entry
LineFromKills(pd, ctx, h) == Get(pd, "kills", 200) * 1000

\* line 325
Line(pd, ctx, h) == FinalMu(pd, ctx, h)

\* the standard normal distribution function at z >= 0, in thousandths, by the
\* quarter of a unit z4 = floor(4 * z)
PhiTable == <<500, 599, 691, 773, 841, 894, 933, 960, 977, 988, 994, 997, 999>>

\* scipy.stats.norm.cdf(x, loc, scale): NaN unless scale > 0
NormCdf(x, loc, scale) ==
    IF scale <= 0 THEN NaN
    ELSE LET z4   == (4 * Abs(x - loc)) \div scale
             tail == IF z4 + 1 <= Len(PhiTable) THEN PhiTable[z4 + 1] ELSE 1000
         IN  Num(IF x >= loc THEN tail ELSE 1000 - tail)

\* line 326: p_over, in thousandths
POver(pd, ctx, h) ==
    LET c == NormCdf(Line(pd, ctx, h), FinalMu(pd, ctx, h), Sigma(pd, ctx, h))
    IN  IF c.nan THEN NaN ELSE Num(1000 - c.val)

\* line 327: edge, in thousandths
EdgeOf(p_over) == p_over - 500

\* line 328 with round() in place of int()
ConfidenceRounded(edge) == Min(3, Max(1, RoundHalfEven(Abs(edge) * 12, 1000)))

\* line 328: the number of stars
ConfidenceOf(edge) == Min(3, Max(1, IntTrunc(Abs(edge) * 12, 1000)))

\* lines 330-345: the dict returned for a p_over that is a number
PredictionRecord(pd, ctx, h, p_over) ==
    [ok |-> TRUE,
     Player |-> pd.name,
     Team |-> pd.team,
     Position |-> PositionOf(pd),
     Agent |-> Get(pd, "agent", "Unknown"),
     Line |-> RoundHalfEven(Line(pd, ctx, h), 1000),
     POver |-> p_over,
     Edge |-> EdgeOf(p_over),
     Confidence |-> ConfidenceOf(EdgeOf(p_over)),
     mu |-> RoundHalfEven(FinalMu(pd, ctx, h), 1000),
     sigma |-> RoundHalfEven(Sigma(pd, ctx, h), 1000),
     History |-> HistoryUsed(pd, h),
     Matchup |-> <<pd.team, ctx.opponent>>,
     Last5 |-> Get(HistoryUsed(pd, h), "last_5_kills", <<>>),
     HS |-> Get(pd, "hs_percent", Get(HistoryUsed(pd, h), "hs_percent", 0))]

\* lines 280-349: the whole call, given the answer h of get_player_history.
\* The two exceptions the inputs of the model can raise are caught at line 347:
\* the rating lookup of a name holding no key of team_ratings, and int() of the
\* NaN that norm.cdf returns for sigma = 0.
PredictPlayerLine(pd, ctx, h) ==
    IF ~TeamRating(ctx.opponent).ok \/ ~TeamRating(pd.team).ok THEN None
    ELSE IF POver(pd, ctx, h).nan THEN None
    ELSE PredictionRecord(pd, ctx, h, POver(pd, ctx, h).val)

-----------------------------------------------------------------------------
(* Process Underdog Data handler: a pasted player entry becomes a player record *)

\* lines 672-680: the betting line of the entry becomes the record's kills
UnderdogPlayer(entry) ==
    [name |-> Get(entry, "name", "Unknown"),
     team |-> Get(entry, "team", "Unknown"),
     kills |-> Get(entry, "line", 200),
     deaths |-> 0,
     acs |-> 0,
     agent |-> Get(entry, "agent", "Unknown")]

-----------------------------------------------------------------------------
(* The displays of a prediction *)

\* render_player_card, lines 456-458: the badge of the card
CardBadge(p) == IF p.POver > 500 THEN "OVER" ELSE "UNDER"

\* ValorantAnalyst.generate_analysis, line 404: the recommendation of the text
AnalysisRecommendation(p) == IF p.POver > 550 THEN "OVER" ELSE "UNDER"

\* Props Lab Optimizer, line 789: the Bet column
OptimizerBet(p) == IF p.POver > 550 THEN "OVER" ELSE "UNDER"

-----------------------------------------------------------------------------
(* Inputs of the model *)

TeamNames ==
    {"Team Liquid", "Fnatic", "Fnatic Rising", "Optic Gaming", "Default", "Sentinels"}

AgentNames == {"Jett", "Killjoy", "Clove"}

\* betting lines of pasted entries, in tenths of a kill
LineValues == {-50, 0, 200, 235}

\* position strings of records that carry no agent
PositionStrings == {"Duelist", "Sentinel", "Flex", "Support"}

\* kills of one listed match, in tenths of a kill
SampleValues == {150, 250}

UnderdogEntries ==
    UNION {
        {[name |-> "Derke", team |-> t] : t \in TeamNames},
        {[name |-> "Derke", team |-> t, agent |-> a] : t \in TeamNames, a \in AgentNames},
        {[name |-> "Derke", team |-> t, line |-> l] : t \in TeamNames, l \in LineValues},
        {[name |-> "Derke", team |-> t, agent |-> a, line |-> l] :
            t \in TeamNames, a \in AgentNames, l \in LineValues}}

UnderdogPlayers == {UnderdogPlayer(e) : e \in UnderdogEntries}

\* records handed to the engine without an agent
DirectPlayers ==
    UNION {
        {[name |-> "Derke", team |-> t] : t \in TeamNames},
        {[name |-> "Derke", team |-> t, kills |-> 235] : t \in TeamNames},
        {[name |-> "Derke", team |-> t, position |-> p] :
            t \in TeamNames, p \in PositionStrings},
        {[name |-> "Derke", team |-> t, position |-> p, kills |-> 235] :
            t \in TeamNames, p \in PositionStrings}}

PlayerDatas == UnderdogPlayers \cup DirectPlayers

\* lines 601-606, 638-639, 686-687: the opponent is a team of the match other
\* than the player's
MatchContexts(pd, teams) == {[opponent |-> o] : o \in teams \ {pd.team}}

KillLists == UNION {[1..n -> SampleValues] : n \in 0..MaxMatches}

\* what get_player_history can answer: None (no profile found, or an exception),
\* or the statistics of the listed matches
HistoryAnswers == {None} \cup {HistoryOf(ks) : ks \in KillLists}

\* the probabilities a prediction handed to the displays can carry
PGrid == 0..1000

NoData == [name |-> "none"]

NoRecord == [built |-> FALSE, POver |-> 0]

NoShown == [badge |-> "none", recommendation |-> "none", bet |-> "none"]

\* the player names of the sample match
AppNames == {"Jawgemo", "Derke", "Boaster"}

\* lines 567-570: the session before any match is loaded; no profile asked for
NoProfiles == [n \in AppNames |-> None]

NoPrevious == [ok |-> FALSE, current_match |-> None, predictions |-> <<>>]

\* lines 738-760: the four select boxes as a first run shows them
FirstSelections ==
    [team_filter |-> "All", position_filter |-> "All",
     confidence_filter |-> "All", sort_by |-> "Edge"]

\* line 111: self.cache = {}, as the set of the (url, match) entries
EmptyCache == {}

AppIdle ==
    /\ profiles = NoProfiles
    /\ current_match = None
    /\ predictions = <<>>
    /\ previous = NoPrevious
    /\ last_load = "none"
    /\ selections = FirstSelections
    /\ cache = EmptyCache
    /\ chat_history = <<>>

\* src/utils/browser.py line 14: the teams whose roster pages are read
RosterTeams == {"Sentinels", "LOUD", "Fnatic"}

\* line 22: rosters = {}, as a function of the team: ok says the team is a key
NoRosters == [t \in RosterTeams |-> None]

ScrapeIdle ==
    /\ rosters = NoRosters
    /\ lines = <<>>
    /\ scraped = <<>>

-----------------------------------------------------------------------------
(* The engine called once *)

Init ==
    /\ player_data \in PlayerDatas
    /\ match_context \in MatchContexts(player_data, TeamNames)
    /\ history = None
    /\ prediction = None
    /\ pc = "called"
    /\ other_data = NoData
    /\ other_history = None
    /\ other_prediction = None
    /\ record = NoRecord
    /\ shown = NoShown
    /\ AppIdle
    /\ ScrapeIdle

\* predict_player_line(player_data, match_context): get_player_history answers h
CallPredict ==
    /\ pc = "called"
    /\ \E h \in HistoryAnswers :
          /\ history' = h
          /\ prediction' = PredictPlayerLine(player_data, match_context, h)
    /\ pc' = "returned"
    /\ UNCHANGED <<player_data, match_context, pairVars, viewVars, appVars, scrapeVars>>

Next == CallPredict

Spec == Init /\ [][Next]_vars

-----------------------------------------------------------------------------
(* The engine called twice, on two records that differ in one field, while   *)
(* get_player_history answers both calls alike                               *)

PairTeams == {"Team Liquid", "Optic Gaming", "Sentinels"}

\* pd with field k set to v, whether or not pd has the field
WithField(pd, k, v) == [f \in DOMAIN pd \cup {k} |-> IF f = k THEN v ELSE pd[f]]

\* the records compared with pd: another betting line for a pasted entry,
\* another position string for a record without agent
Variants(pd) ==
    IF pd \in UnderdogPlayers
    THEN {WithField(pd, "kills", l) : l \in LineValues \ {pd.kills}}
    ELSE {WithField(pd, "position", q) : q \in PositionStrings \ {Get(pd, "position", "none")}}

InitPair ==
    /\ player_data \in {pd \in PlayerDatas : pd.team \in PairTeams}
    /\ match_context \in MatchContexts(player_data, PairTeams)
    /\ other_data \in Variants(player_data)
    /\ other_history = None
    /\ history = None
    /\ prediction = None
    /\ pc = "called"
    /\ other_prediction = None
    /\ record = NoRecord
    /\ shown = NoShown
    /\ AppIdle
    /\ ScrapeIdle

\* predict_player_line(other_data, match_context), get_player_history answering
\* as it did for the first call
CallPredictOther ==
    /\ pc = "returned"
    /\ other_history' = history
    /\ other_prediction' = PredictPlayerLine(other_data, match_context, history)
    /\ pc' = "both"
    /\ UNCHANGED <<player_data, match_context, history, prediction, other_data, viewVars, appVars, scrapeVars>>

NextPair == CallPredict \/ CallPredictOther

SpecPair == InitPair /\ [][NextPair]_vars

-----------------------------------------------------------------------------
(* A prediction record built from a probability, and its displays *)

InitView ==
    /\ record \in {[built |-> FALSE, POver |-> p] : p \in PGrid}
    /\ shown = NoShown
    /\ AppIdle
    /\ ScrapeIdle
    /\ player_data = NoData
    /\ match_context = [opponent |-> "none"]
    /\ history = None
    /\ prediction = None
    /\ pc = "idle"
    /\ other_data = NoData
    /\ other_history = None
    /\ other_prediction = None

\* lines 327-338: edge and confidence of the record, from its p_over
BuildRecord ==
    /\ ~record.built
    /\ record' = [built |-> TRUE,
                  POver |-> record.POver,
                  Edge |-> EdgeOf(record.POver),
                  Confidence |-> ConfidenceOf(EdgeOf(record.POver))]
    /\ UNCHANGED <<shown, calcVars, pairVars, appVars, scrapeVars>>

\* render_player_card(record)
RenderPlayerCard ==
    /\ record.built
    /\ shown.badge = "none"
    /\ shown' = [shown EXCEPT !.badge = CardBadge(record)]
    /\ UNCHANGED <<record, calcVars, pairVars, appVars, scrapeVars>>

\* analyst.generate_analysis(record)
GenerateAnalysis ==
    /\ record.built
    /\ shown.recommendation = "none"
    /\ shown' = [shown EXCEPT !.recommendation = AnalysisRecommendation(record)]
    /\ UNCHANGED <<record, calcVars, pairVars, appVars, scrapeVars>>

\* the optimizer table row of the record
OptimizerRow ==
    /\ record.built
    /\ shown.bet = "none"
    /\ shown' = [shown EXCEPT !.bet = OptimizerBet(record)]
    /\ UNCHANGED <<record, calcVars, pairVars, appVars, scrapeVars>>

NextView == BuildRecord \/ RenderPlayerCard \/ GenerateAnalysis \/ OptimizerRow

SpecView == InitView /\ [][NextView]_vars

-----------------------------------------------------------------------------
(* Vocabulary of the claims *)

\* the betting line of a pasted entry is the kills of its record
KillsOf(pd) == Get(pd, "kills", 200)

IsUnderdog(pd) == pd \in UnderdogPlayers

Rated(pd, ctx) == TeamRating(pd.team).ok /\ TeamRating(ctx.opponent).ok

\* the samples of the model are never negative, so an input is valid when its
\* line is positive
ValidInput(pd) == KillsOf(pd) > 0

\* the deviation of the samples is zero and their average is positive
ZeroDeviation(pd, h) ==
    HistoryUsed(pd, h).avg_kills > 0 /\ HistoryUsed(pd, h).kill_std = 0

\* no profile was found, or the profile lists no match
NoSamples(h) == ~h.ok \/ h.matches_analyzed = 0

Returned == pc \in {"returned", "both"}

-----------------------------------------------------------------------------
(* C1..C10 *)

\* C1: for every valid input, inputs whose samples have zero standard deviation
\* included, the call returns a prediction whose P(OVER) is a number in [0, 1].
\* Stated for rated teams, so that a failure is not the one of C6.
C1_ProbabilityInUnitInterval ==
    (Returned /\ ValidInput(player_data) /\ Rated(player_data, match_context))
        => (prediction.ok /\ prediction.POver \in 0..1000)

\* C2: of two predictions for the same player, position, samples and teams whose
\* betting lines differ, the one with the larger line has the strictly smaller
\* P(OVER).
C2_LargerLineSmallerProbability ==
    (/\ pc = "both"
     /\ IsUnderdog(player_data)
     /\ ValidInput(player_data) /\ ValidInput(other_data)
     /\ prediction.ok /\ other_prediction.ok
     /\ KillsOf(other_data) > KillsOf(player_data))
        => other_prediction.POver < prediction.POver

\* C3: a prediction whose final mean is above the betting line has P(OVER) > 0.5;
\* one whose final mean is below the line has P(OVER) < 0.5 and side UNDER.
C3_ProbabilityFollowsMean ==
    (Returned /\ IsUnderdog(player_data) /\ ValidInput(player_data) /\ prediction.ok)
        => LET mu   == FinalMu(player_data, match_context, history)
               line == 1000 * KillsOf(player_data)
           IN  /\ mu > line => prediction.POver > 500
               /\ mu < line => (/\ prediction.POver < 500
                                /\ AnalysisRecommendation(prediction) = "UNDER")

C5_SigmaFlooredAndPredictionReturned ==
    (Returned /\ ValidInput(player_data) /\ Rated(player_data, match_context))
        => (/\ Sigma(player_data, match_context, history) > 0
            /\ prediction.ok)

\* C6: a team or opponent name that matches no entry of the ratings table never
\* makes the prediction fail.  Stated for samples whose deviation is not zero, so
\* that a failure is not the one of C5.
C6_UnknownTeamStillPredicted ==
    (Returned /\ ~Rated(player_data, match_context)
              /\ ~ZeroDeviation(player_data, history))
        => prediction.ok

\* C7: the prediction for an unrecognized position string is identical, in every
\* field, to the prediction for the same player with position "Flex".  Stated
\* for calls that return a prediction (valid line, rated teams, a deviation
\* that is not zero).
C7_UnrecognizedPositionSameAsFlex ==
    (/\ pc = "both"
     /\ ValidInput(player_data)
     /\ Rated(player_data, match_context)
     /\ ~ZeroDeviation(player_data, history)
     /\ ~Has(player_data, "agent")
     /\ Has(player_data, "position")
     /\ player_data["position"] \notin PositionNames
     /\ other_data = WithField(player_data, "position", "Flex"))
        => prediction = other_prediction

\* C8: a negative line makes the call signal an error and return no prediction.
C8_NegativeLineRejected ==
    (Returned /\ KillsOf(player_data) < 0) => ~prediction.ok

\* C9: when the player has no samples (no history found, or a history of zero
\* matches) the mean before position and matchup adjustment is the betting line.
C9_NoSamplesMeanIsLine ==
    (Returned /\ IsUnderdog(player_data) /\ ValidInput(player_data) /\ NoSamples(history))
        => WeightedAvg(player_data, history) = 10 * KillsOf(player_data)

DocumentedStars(certainty) ==
    IF certainty >= 750 THEN 3
    ELSE IF certainty >= 620 THEN 2
    ELSE 1

\* the certainty of a record, max(P, 1 - P), in thousandths
Certainty(r) == Max(r.POver, 1000 - r.POver)

Samples(h) == IF h.ok THEN h.recent_matches ELSE <<>>

\* the values with one decimal next to sum / n, for sum >= 0
Tenths(sum, n) == {sum \div n, sum \div n + 1}

\* r is a value with one decimal nearest to sum / n
NearestTenth(r, sum, n) == 2 * Abs(n * r - sum) <= n

\* C12 as stated: the weighted average is recentAverage * w + historicalAverage
\* * (1 - w) with the exact means: historicalAverage the mean of the samples,
\* recentAverage the mean of the 5 most recent and w = 0.7 when there are at
\* least 5 samples, recentAverage = historicalAverage and w = 0.5 otherwise.
C12_WeightedAverageOfMeans ==
    LET ks == Samples(history)
        n  == Len(ks)
        W  == WeightedAvg(player_data, history)
    IN  (Returned /\ n >= 1)
            => IF n >= 5
               THEN 5 * n * W = 7 * n * SeqSum(Prefix(ks, 5)) + 3 * 5 * SeqSum(ks)
               ELSE n * W = 10 * SeqSum(ks)

\* C12 amended: the same combination of the two means as the history reports
\* them, each rounded to one decimal: w = 0.7 and the rounded mean of the 5 most
\* recent samples when there are at least 5 samples, w = 0.5 and the rounded
\* historical mean twice otherwise.
C12_WeightedAverageOfRoundedMeans ==
    LET ks == Samples(history)
        n  == Len(ks)
        W  == WeightedAvg(player_data, history)
    IN  (Returned /\ n >= 1)
            => \E H \in Tenths(SeqSum(ks), n), R \in Tenths(SeqSum(Prefix(ks, 5)), 5) :
                   /\ NearestTenth(H, SeqSum(ks), n)
                   /\ n >= 5 => NearestTenth(R, SeqSum(Prefix(ks, 5)), 5)
                   /\ W = IF n >= 5 THEN 7 * R + 3 * H ELSE 5 * H + 5 * H

\* C12 witness: more than 5 samples, a recent mean that differs from the
\* historical one, and a historical mean that rounding changes
C12_Witness ==
    /\ Returned
    /\ Len(Samples(history)) > 5
    /\ history.last_5_avg # history.avg_kills
    /\ Len(Samples(history)) * history.avg_kills # SeqSum(Samples(history))

(***************************************************************************)
(* C13: the matchup adjustment                                             *)
(***************************************************************************)
\* C13: for rated teams and a positive adjusted mean, the final mean is the
\* adjusted mean times 1 + (1 - opponent rating / team rating) * 0.15 (to the
\* unit of the model, 1/10000 of a kill): strictly greater than the adjusted
\* mean against a lower rated opponent, strictly smaller against a higher rated
\* one, equal at equal ratings.
C13_MatchupAdjustment ==
    (Returned /\ Rated(player_data, match_context)
              /\ AdjustedMu(player_data, history) > 0)
        => LET A    == AdjustedMu(player_data, history)
               F    == FinalMu(player_data, match_context, history)
               team == TeamRating(player_data.team).rating
               opp  == TeamRating(match_context.opponent).rating
           IN  /\ 20 * team * F <= A * (20 * team + 3 * (team - opp))
               /\ A * (20 * team + 3 * (team - opp)) < 20 * team * (F + 1)
               /\ opp < team => F > A
               /\ opp > team => F < A
               /\ opp = team => F = A

\* C13 witness: a prediction returned against a higher rated opponent, with a
\* final mean below the positive adjusted mean
C13_Witness ==
    /\ Returned
    /\ prediction.ok
    /\ Rated(player_data, match_context)
    /\ AdjustedMu(player_data, history) > 0
    /\ TeamRating(match_context.opponent).rating > TeamRating(player_data.team).rating
    /\ FinalMu(player_data, match_context, history) < AdjustedMu(player_data, history)

(***************************************************************************)
(* C14: sigma                                                              *)
(***************************************************************************)
\* the volatility factor the claim states, in tenths
StatedVolatility(pd, ctx) ==
    LET opp  == TeamRating(ctx.opponent).rating
        team == TeamRating(pd.team).rating
    IN  IF 10 * opp < 9 * team \/ 10 * opp > 11 * team THEN 12 ELSE 10

\* r is a value with one decimal nearest to the population deviation of ks
NearestDeviation(r, ks) ==
    LET n == Len(ks)
        v == n * SeqSumSq(ks) - SeqSum(ks) * SeqSum(ks)
    IN  /\ (2 * r + 1) * (2 * r + 1) * n * n > 4 * v
        /\ r = 0 \/ (2 * r - 1) * (2 * r - 1) * n * n <= 4 * v

\* sg is base * vol * std / avg, to the unit of the model
SigmaIs(sg, base, vol, std, avg) ==
    /\ avg * sg <= base * vol * 100 * std
    /\ base * vol * 100 * std < avg * (sg + 1)

\* C14 as stated, for a player with no samples: consistency is 1.0, so sigma
\* is the position's base dispersion times the volatility factor.
C14_NoSamplesConsistencyOne ==
    (Returned /\ Rated(player_data, match_context) /\ NoSamples(history))
        => Sigma(player_data, match_context, history)
               = PosData(player_data).sigma
                     * StatedVolatility(player_data, match_context) * 100

\* C14 amended: sigma is base dispersion * consistency * volatility factor,
\* the factor being 1.2 exactly when the strength ratio is below 0.9 or above
\* 1.1; consistency is deviation / average of the history used when that
\* average is positive and 1.0 otherwise: the deviation and mean of the samples
\* rounded to one decimal for a profile with samples, 1.0 for a profile with no
\* samples, and 3.0 / kills for positive kills when no profile is found.
C14_SigmaOfHistoryUsed ==
    (Returned /\ Rated(player_data, match_context))
        => LET sg   == Sigma(player_data, match_context, history)
               base == PosData(player_data).sigma
               vol  == StatedVolatility(player_data, match_context)
               ks   == Samples(history)
           IN  IF ~history.ok
               THEN IF KillsOf(player_data) > 0
                    THEN SigmaIs(sg, base, vol, 30, KillsOf(player_data))
                    ELSE sg = base * vol * 100
               ELSE IF ks = <<>>
                    THEN sg = base * vol * 100
                    ELSE /\ NearestTenth(history.avg_kills, SeqSum(ks), Len(ks))
                         /\ NearestDeviation(history.kill_std, ks)
                         /\ history.avg_kills > 0
                         /\ SigmaIs(sg, base, vol, history.kill_std, history.avg_kills)

\* C14 witness: a prediction returned for a player whose profile is not found,
\* against an opponent of strength ratio below 0.9, with a sigma that is not
\* the base dispersion times the factor
C14_Witness ==
    /\ Returned
    /\ prediction.ok
    /\ ~history.ok
    /\ KillsOf(player_data) > 0
    /\ 10 * TeamRating(match_context.opponent).rating
           < 9 * TeamRating(player_data.team).rating
    /\ Sigma(player_data, match_context, history)
           # PosData(player_data).sigma * 12 * 100

(***************************************************************************)
(* Two calls for the same player and match, the profile listing one larger *)
(* sample at the second call                                               *)
(***************************************************************************)
\* the teams of the ratings table
RatedTeams == {RatingKeys[i] : i \in 1..Len(RatingKeys)}

\* one record without an agent and one built from a pasted entry, per team
SamplePlayers ==
    {[name |-> "Derke", team |-> t, position |-> "Flex"] : t \in RatedTeams}
        \cup {UnderdogPlayer([name |-> "Derke", team |-> t, agent |-> "Jett", line |-> 235]) :
                   t \in RatedTeams}

\* by how much the kills of one listed match grow, in tenths of a kill
RaiseSteps == {1, 100}

InitSamples ==
    /\ player_data \in SamplePlayers
    /\ match_context \in MatchContexts(player_data, RatedTeams)
    /\ other_data = player_data
    /\ other_history = None
    /\ history = None
    /\ prediction = None
    /\ other_prediction = None
    /\ pc = "called"
    /\ record = NoRecord
    /\ shown = NoShown
    /\ AppIdle
    /\ ScrapeIdle

\* predict_player_line for the same record and match, get_player_history
\* answering with the same matches but for the kills of one of them
CallPredictRaised ==
    /\ pc = "returned"
    /\ history.ok
    /\ \E i \in 1..Len(history.recent_matches), d \in RaiseSteps :
           LET ks == history.recent_matches
           IN  other_history' = HistoryOf([ks EXCEPT ![i] = ks[i] + d])
    /\ other_prediction' = PredictPlayerLine(other_data, match_context, other_history')
    /\ pc' = "raised"
    /\ UNCHANGED <<player_data, match_context, history, prediction, other_data, viewVars, appVars, scrapeVars>>

NextSamples == CallPredict \/ CallPredictRaised

SpecSamples == InitSamples /\ [][NextSamples]_vars

(***************************************************************************)
(* C15: monotonicity in the samples                                        *)
(***************************************************************************)
\* ls is ks with one sample replaced by a larger value
OneSampleRaised(ks, ls) ==
    /\ Len(ls) = Len(ks)
    /\ \E i \in 1..Len(ks) :
           /\ ls[i] > ks[i]
           /\ \A j \in 1..Len(ks) : j # i => ls[j] = ks[j]

\* C15: for the same record and match, a sample list with one sample replaced
\* by a larger value never gives a smaller final mean, nor a smaller mean in
\* the prediction returned.
C15_LargerSampleNoSmallerMean ==
    (pc = "raised" /\ OneSampleRaised(Samples(history), Samples(other_history)))
        => /\ FinalMu(player_data, match_context, history)
                  <= FinalMu(other_data, match_context, other_history)
           /\ (prediction.ok /\ other_prediction.ok)
                  => prediction.mu <= other_prediction.mu

\* C15 witness: more than 5 samples, one of them raised, both calls returned a
\* prediction and the final mean grew
C15_Witness ==
    /\ pc = "raised"
    /\ Len(Samples(history)) > 5
    /\ OneSampleRaised(Samples(history), Samples(other_history))
    /\ prediction.ok
    /\ other_prediction.ok
    /\ FinalMu(player_data, match_context, history)
           < FinalMu(other_data, match_context, other_history)

(***************************************************************************)
(* The same call made twice                                                *)
(***************************************************************************)
RepeatPlayers ==
    {[name |-> "Derke", team |-> "Fnatic", position |-> "Flex"],
     UnderdogPlayer([name |-> "Derke", team |-> "Team Liquid", agent |-> "Jett",
                     line |-> 235])}

InitRepeat ==
    /\ player_data \in RepeatPlayers
    /\ match_context \in MatchContexts(player_data, PairTeams)
    /\ other_data = player_data
    /\ other_history = None
    /\ history = None
    /\ prediction = None
    /\ other_prediction = None
    /\ pc = "called"
    /\ record = NoRecord
    /\ shown = NoShown
    /\ AppIdle
    /\ ScrapeIdle

\* predict_player_line called again with the same arguments: get_player_history
\* is asked again (it keeps no cache) and answers h
CallPredictAgain ==
    /\ pc = "returned"
    /\ \E h \in HistoryAnswers :
          /\ other_history' = h
          /\ other_prediction' = PredictPlayerLine(other_data, match_context, h)
    /\ pc' = "again"
    /\ UNCHANGED <<player_data, match_context, history, prediction, other_data, viewVars, appVars, scrapeVars>>

NextRepeat == CallPredict \/ CallPredictAgain

SpecRepeat == InitRepeat /\ [][NextRepeat]_vars

(***************************************************************************)
(* C16: the result depends on the arguments only                           *)
(***************************************************************************)
\* C16: two calls with the same player record and the same match context
\* return the same prediction.
C16_SameArgumentsSamePrediction ==
    (pc = "again" /\ other_data = player_data) => other_prediction = prediction

(***************************************************************************)
(* The application: one run of the script per click                        *)
(***************************************************************************)
\* lines 601-605: next(names of the match's teams other than the player's,
\* "Unknown"); lines 638 and 686 give no default (dflt = None) and raise
\* StopIteration when no team has another name
OpponentOf(player, teams, dflt) ==
    LET others == SelectSeq(teams, LAMBDA t : t # player.team)
    IN  IF others # <<>> THEN [ok |-> TRUE, name |-> Head(others)] ELSE dflt

UnknownOpponent == [ok |-> TRUE, name |-> "Unknown"]

\* lines 606-607 with the history of the player processed just before
PredictionWithStaleHistory(players, i, teams, dflt, env) ==
    PredictPlayerLine(players[i],
                      [opponent |-> OpponentOf(players[i], teams, dflt).name],
                      env[players[IF i > 1 THEN i - 1 ELSE i].name])

\* lines 606-607, 639-640, 687-688: the prediction for the i-th player of the
\* match, env[name] being what get_player_history answers for that player
PredictionFor(players, i, teams, dflt, env) ==
    PredictPlayerLine(players[i],
                      [opponent |-> OpponentOf(players[i], teams, dflt).name],
                      env[players[i].name])

\* lines 600-609, 637-642, 685-690: the loop over the players from the i-th on,
\* acc being session_state.predictions so far; a prediction that is None is
\* not appended; StopIteration leaves the loop
RECURSIVE PredictFrom(_, _, _, _, _, _)
PredictFrom(i, acc, players, teams, dflt, env) ==
    IF i > Len(players) THEN [predictions |-> acc, raised |-> FALSE]
    ELSE IF ~OpponentOf(players[i], teams, dflt).ok
         THEN [predictions |-> acc, raised |-> TRUE]
         ELSE LET p == PredictionFor(players, i, teams, dflt, env)
              IN  PredictFrom(i + 1, IF p.ok THEN Append(acc, p) ELSE acc,
                              players, teams, dflt, env)

\* list.sort(key = Edge, reverse = True): stable, x goes behind the entries
\* whose Edge is not smaller
RECURSIVE InsertByEdge(_, _)
InsertByEdge(sorted, x) ==
    IF sorted = <<>> THEN <<x>>
    ELSE IF Head(sorted).Edge >= x.Edge
         THEN <<Head(sorted)>> \o InsertByEdge(Tail(sorted), x)
         ELSE <<x>> \o sorted

RECURSIVE SortByEdge(_)
SortByEdge(s) ==
    IF s = <<>> THEN <<>>
    ELSE InsertByEdge(SortByEdge(Prefix(s, Len(s) - 1)), s[Len(s)])

\* line 774: the order Python's string comparison gives the names a
\* prediction's Team can hold
NameOrder ==
    <<"DRX", "Default", "Fnatic", "Fnatic Rising", "LOUD", "Optic Gaming",
      "Sentinels", "Team A", "Team B", "Team Liquid">>

TeamRank(name) == CHOOSE i \in DOMAIN NameOrder : NameOrder[i] = name

\* lines 773-774: key = x.get(sort_by, 0), reverse for "Edge" and "P(OVER)";
\* a reversed stable sort is the stable sort by the negated key
SortKey(p, sort_by) ==
    CASE sort_by = "Edge" -> -p.Edge
      [] sort_by = "P(OVER)" -> -p.POver
      [] sort_by = "Line" -> p.Line
      [] sort_by = "Team" -> TeamRank(p.Team)

\* list.sort: stable, x goes behind the entries whose key is not larger
RECURSIVE InsertByKey(_, _, _)
InsertByKey(sorted, x, sort_by) ==
    IF sorted = <<>> THEN <<x>>
    ELSE IF SortKey(Head(sorted), sort_by) <= SortKey(x, sort_by)
         THEN <<Head(sorted)>> \o InsertByKey(Tail(sorted), x, sort_by)
         ELSE <<x>> \o sorted

RECURSIVE SortByKey(_, _)
SortByKey(s, sort_by) ==
    IF s = <<>> THEN <<>>
    ELSE InsertByKey(SortByKey(Prefix(s, Len(s) - 1), sort_by), s[Len(s)], sort_by)

\* lines 773-774: filtered.sort for the chosen key
SortPredictions(s, sort_by) ==
    IF sort_by = "Edge" THEN SortByEdge(s) ELSE SortByKey(s, sort_by)

\* lines 750-754: the options of the confidence filter, * standing for a star
ConfidenceOptions == {"All", "High (***)", "Medium (**)", "Low (*)"}

\* line 769: len(confidence_filter.split("(")[1]) - 1
MinStars(confidence_filter) ==
    CASE confidence_filter = "High (***)" -> 3
      [] confidence_filter = "Medium (**)" -> 2
      [] confidence_filter = "Low (*)" -> 1

\* lines 756-760
SortOptions == {"Edge", "P(OVER)", "Line", "Team"}

\* lines 738-748: "All" and the teams, the positions of the session's list
TeamOptions(preds) == {"All"} \cup {preds[i].Team : i \in DOMAIN preds}

PositionOptions(preds) == {"All"} \cup {preds[i].Position : i \in DOMAIN preds}

\* what the four select boxes can hold in a run showing the list preds
SelectionsOffered(preds) ==
    [team_filter : TeamOptions(preds), position_filter : PositionOptions(preds),
     confidence_filter : ConfidenceOptions, sort_by : SortOptions]

\* lines 764-770: no filter is chosen, filtered stays the session's list
NoFilter(sel) ==
    /\ sel.team_filter = "All"
    /\ sel.position_filter = "All"
    /\ sel.confidence_filter = "All"

\* lines 764-770: the list comprehensions of the chosen filters; Confidence
\* is a string of stars whose length is the number kept here
Filtered(preds, sel) ==
    SelectSeq(preds, LAMBDA p :
        /\ sel.team_filter = "All" \/ p.Team = sel.team_filter
        /\ sel.position_filter = "All" \/ p.Position = sel.position_filter
        /\ sel.confidence_filter = "All"
               \/ p.Confidence >= MinStars(sel.confidence_filter))

\* lines 763-780: the list the cards are drawn from
CardsShown(preds, sel) == SortPredictions(Filtered(preds, sel), sel.sort_by)

\* lines 723-774: the main area of a run, as the session's list after it.
\* Without a current match nothing is drawn; with fewer than two teams
\* render_match_header raises IndexError at line 521 and the run ends there;
\* with no filter chosen filtered is the session's list itself and
\* filtered.sort sorts it in place; with a filter chosen filtered is a new list
RenderMain(match, preds, sel) ==
    IF ~match.ok \/ Len(match.teams) < 2 THEN preds
    ELSE IF NoFilter(sel) THEN SortPredictions(preds, sel.sort_by)
    ELSE preds

\* lines 614-633
SampleMatch ==
    [ok |-> TRUE,
     teams |-> <<"Team Liquid", "Fnatic">>,
     players |-> <<[name |-> "Jawgemo", team |-> "Team Liquid", kills |-> 230,
                    deaths |-> 18, acs |-> 245, agent |-> "Jett"],
                   [name |-> "Derke", team |-> "Fnatic", kills |-> 270,
                    deaths |-> 20, acs |-> 265, agent |-> "Raze"],
                   [name |-> "Boaster", team |-> "Fnatic", kills |-> 150,
                    deaths |-> 22, acs |-> 180, agent |-> "Brimstone"]>>,
     event |-> "VCT 2023",
     url |-> "https://www.vlr.gg/12345"]

\* lines 659-680: the match built from pasted data
UnderdogMatch(data) ==
    [ok |-> TRUE,
     teams |-> <<Get(data, "team1", "Team A"), Get(data, "team2", "Team B")>>,
     players |-> [i \in 1..Len(Get(data, "players", <<>>)) |->
                      UnderdogPlayer(data.players[i])],
     event |-> "Custom Underdog Match",
     url |-> ""]

\* data['players']: no entry, one entry, two entries in either order, and an
\* entry of a team the ratings do not list
EntryLists ==
    LET J == [name |-> "Jawgemo", team |-> "Team Liquid", agent |-> "Jett", line |-> 235]
        D == [name |-> "Derke", team |-> "Fnatic"]
        B == [name |-> "Boaster", team |-> "Sentinels", agent |-> "Killjoy", line |-> 200]
    IN  {<<>>, <<J>>, <<J, D>>, <<D, J>>, <<J, B>>}

\* line 659: what json.loads gives for null (Python's None) where a name is
\* expected; a text of its own, so that names stay comparable
NullName == "<null>"

\* the text area: empty, text json.loads rejects, data naming two teams, data
\* naming one team twice, or data without team1 and team2
PastedTexts ==
    {[kind |-> "empty"], [kind |-> "invalid"]}
        \cup {[kind |-> "json",
                data |-> [team1 |-> "Team Liquid", team2 |-> "Fnatic", players |-> ps]] :
                   ps \in EntryLists}
        \cup {[kind |-> "json",
                data |-> [team1 |-> "Fnatic", team2 |-> "Fnatic", players |-> ps]] :
                   ps \in {qs \in EntryLists : Len(qs) = 2 /\ qs[2].name = "Derke"}}
        \cup {[kind |-> "json", data |-> [players |-> ps]] :
                   ps \in {qs \in EntryLists : Len(qs) = 1 /\ qs[1].name = "Jawgemo"}}

\* the text area before a chat: text json.loads rejects, data naming two teams
\* and a player of each, or data whose team2 is null
ChatTexts ==
    {[kind |-> "invalid"]}
        \cup {[kind |-> "json",
                data |-> [team1 |-> "Team Liquid", team2 |-> "Fnatic", players |-> ps]] :
                   ps \in {qs \in EntryLists : Len(qs) = 2 /\ qs[2].name = "Derke"}}
        \cup {[kind |-> "json",
                data |-> [team1 |-> "Fnatic", team2 |-> NullName, players |-> ps]] :
                   ps \in {qs \in EntryLists : Len(qs) = 1 /\ qs[1].name = "Jawgemo"}}

\* the URL field: empty or a match page
UrlInputs == {"", "https://www.vlr.gg/1/tl-vs-fnc"}

\* lines 150-162: a row of a map's statistics table
ScrapedRow(name, team, kills, agent, map) ==
    [name |-> name, team |-> team, kills |-> kills, deaths |-> 180, acs |-> 240,
     agent |-> agent, map |-> map]

\* lines 117-175: what get_match_data builds from the page behind url: both
\* players in either order, one player on two maps, or a page without team
\* header links
ScrapedMatches(url) ==
    LET J1 == ScrapedRow("Jawgemo", "Team Liquid", 230, "Jett", "1")
        J2 == ScrapedRow("Jawgemo", "Team Liquid", 150, "Jett", "2")
        D1 == ScrapedRow("Derke", "Fnatic", 270, "Raze", "1")
        both == <<"Team Liquid", "Fnatic">>
    IN  {[ok |-> TRUE, teams |-> t, players |-> ps, event |-> "VCT", url |-> url] :
            t \in {both}, ps \in {<<J1, D1>>, <<D1, J1>>, <<J1, J2>>}}
        \cup {[ok |-> TRUE, teams |-> <<>>, players |-> <<J1>>, event |-> "VCT",
                url |-> url]}

\* what get_player_history answers for a player: no profile, two matches, or
\* one match
ProfileAnswers == {None, HistoryOf(<<150, 250>>), HistoryOf(<<250>>)}

\* the answers per player, the same at every click: any answer for Jawgemo,
\* no profile or two matches for Derke, no profile for Boaster
ProfileWorlds ==
    {f \in [AppNames -> ProfileAnswers] :
        f["Boaster"] = None /\ f["Derke"] # HistoryOf(<<250>>)}

InitApp ==
    /\ profiles \in ProfileWorlds
    /\ current_match = None
    /\ predictions = <<>>
    /\ previous = NoPrevious
    /\ last_load = "none"
    /\ selections = FirstSelections
    /\ cache = EmptyCache
    /\ chat_history = <<>>
    /\ player_data = NoData
    /\ match_context = [opponent |-> "none"]
    /\ history = None
    /\ prediction = None
    /\ pc = "idle"
    /\ other_data = NoData
    /\ other_history = None
    /\ other_prediction = None
    /\ record = NoRecord
    /\ shown = NoShown
    /\ ScrapeIdle

\* lines 596-609, 634-642, 682-690, then the main area: the match replaces the
\* current one, the list starts empty and takes the predictions of the loop;
\* the run counts as a successful load unless the loop raised; StopIteration
\* is raised only with dflt = None, in the try of Process Underdog Data, whose
\* except clause reports it at line 693
LoadMatch(match, dflt) ==
    LET run == PredictFrom(1, <<>>, match.players, match.teams, dflt, profiles)
    IN  /\ current_match' = match
        /\ predictions' = RenderMain(match, run.predictions, selections)
        /\ previous' = [ok |-> last_load = "ok",
                        current_match |-> current_match,
                        predictions |-> predictions]
        /\ last_load' = IF run.raised THEN "Error parsing Underdog data" ELSE "ok"

\* lines 610-615, 691-695: a warning or an error, then the main area
NoLoad(report) ==
    /\ predictions' = RenderMain(current_match, predictions, selections)
    /\ last_load' = report
    /\ UNCHANGED <<current_match, previous>>

\* lines 120-121: vlr_url in self.cache, self.cache[vlr_url]
CacheHas(c, url) == \E e \in c : e.url = url

CacheGet(c, url) == (CHOOSE e \in c : e.url = url).match

\* lines 117-179: get_match_data on a service whose cache is c, answer being
\* what the request and the extraction give for the page: a match, or None
\* when any of them raises. A cached match is returned without a request; a
\* match is stored at line 174 once it is extracted; line 177 catches whatever
\* was raised and None is returned with the cache as it was
GetMatchData(c, url, answer) ==
    IF CacheHas(c, url)
    THEN [result |-> CacheGet(c, url), cache |-> c, requested |-> FALSE]
    ELSE IF answer.ok
         THEN [result |-> answer,
               cache |-> c \cup {[url |-> url, match |-> answer]},
               requested |-> TRUE]
         ELSE [result |-> None, cache |-> c, requested |-> TRUE]

\* line 562: every run of the script builds a new ValorantDataService, whose
\* cache is empty; cache is the cache of the service of the latest run
NewService == EmptyCache

\* lines 591-615: the Analyze Match button
AnalyzeMatch ==
    /\ \E url \in UrlInputs :
           IF url = ""
           THEN NoLoad("Please enter a VLR.gg URL") /\ cache' = NewService
           ELSE \E answer \in {None} \cup ScrapedMatches(url) :
                    LET call == GetMatchData(NewService, url, answer)
                        match_data == call.result
                    IN  /\ cache' = call.cache
                        /\ IF match_data.ok
                           THEN LoadMatch(match_data, UnknownOpponent)
                           ELSE NoLoad("Could not load match data")
    /\ UNCHANGED <<profiles, selections, chat_history,
                   calcVars, pairVars, viewVars, scrapeVars>>

\* lines 618-644: the Load Sample Data button
LoadSampleData ==
    /\ LoadMatch(SampleMatch, None)
    /\ cache' = NewService
    /\ UNCHANGED <<profiles, selections, chat_history,
                   calcVars, pairVars, viewVars, scrapeVars>>

\* lines 655-695: the Process Underdog Data button, the text area holding one
\* of texts
ProcessUnderdog(texts) ==
    /\ \E text \in texts :
           CASE text.kind = "json" -> LoadMatch(UnderdogMatch(text.data), None)
             [] text.kind = "invalid" -> NoLoad("Error parsing Underdog data")
             [] text.kind = "empty" -> NoLoad("Please paste Underdog JSON data")
    /\ cache' = NewService
    /\ UNCHANGED <<profiles, selections, chat_history,
                   calcVars, pairVars, viewVars, scrapeVars>>

ProcessUnderdogData == ProcessUnderdog(PastedTexts)

NextApp == AnalyzeMatch \/ LoadSampleData \/ ProcessUnderdogData

SpecApp == InitApp /\ [][NextApp]_vars

(***************************************************************************)
(* C17: a batch gives each player the prediction of the player alone       *)
(***************************************************************************)
\* the prediction of the list for the player of that name, None when the list
\* has none
PredictionOf(preds, name) ==
    IF \E i \in DOMAIN preds : preds[i].Player = name
    THEN preds[CHOOSE i \in DOMAIN preds : preds[i].Player = name]
    ELSE None

\* the name is the name of exactly one player of the match
Once(name, match) ==
    Cardinality({i \in DOMAIN match.players : match.players[i].name = name}) = 1

C18_OnePredictionPerPlayer ==
    last_load = "ok"
        => /\ Len(predictions) = Len(current_match.players)
           /\ \A i \in DOMAIN predictions :
                  /\ predictions[i].Player = current_match.players[i].name
                  /\ predictions[i].Team = current_match.players[i].team

(***************************************************************************)
(* src/utils/browser.py: scrape_underdog_lines                             *)
(***************************************************************************)
\* the text of div.player-team
TeamText(t) == [ok |-> TRUE, name |-> t]

\* lines 50-53: what a div.player-line block yields: name, line and team, the
\* team None without a div.player-team; or an exception (ok FALSE) when the
\* name is missing or the line is no number
ScrapedItems ==
    {[ok |-> TRUE, name |-> "TenZ", line |-> 185, team |-> TeamText("Sentinels")],
     [ok |-> TRUE, name |-> "aspas", line |-> 205, team |-> TeamText("Sentinels")],
     [ok |-> TRUE, name |-> "aspas", line |-> 205, team |-> TeamText("LOUD")],
     [ok |-> TRUE, name |-> "TenZ", line |-> 185, team |-> TeamText("Paper Rex")],
     [ok |-> TRUE, name |-> "TenZ", line |-> 185, team |-> None],
     [ok |-> FALSE]}

\* the blocks of one page
ScrapedPages == UNION {[1..n -> ScrapedItems] : n \in 0..MaxItems}

\* lines 23-31: what get_current_rosters can return: per team the names of its
\* roster page, or no key when the request raised
RosterWorlds ==
    {[t \in RosterTeams |->
          IF t \in failed THEN None
          ELSE [ok |-> TRUE,
                players |-> CASE t = "Sentinels" -> <<"TenZ", "zekken">>
                              [] t = "LOUD"      -> <<"aspas">>
                              [] OTHER           -> <<>>]] :
        failed \in SUBSET RosterTeams}

\* name in rosters[team]
InRoster(name, roster) == \E k \in DOMAIN roster.players : roster.players[k] = name

\* line 56 without the test name in rosters[team]
ValidTeamOnly(item, rs) ==
    /\ item.team.ok
    /\ item.team.name # ""
    /\ item.team.name \in RosterTeams
    /\ rs[item.team.name].ok

\* line 56: team and team in rosters and name in rosters[team]
ValidLine(item, rs) ==
    /\ item.team.ok
    /\ item.team.name # ""
    /\ item.team.name \in RosterTeams
    /\ rs[item.team.name].ok
    /\ InRoster(item.name, rs[item.team.name])

\* lines 57-62: the dict appended (scraped_at left out)
LineOf(item) == [player |-> item.name, line |-> item.line, team |-> item.team.name]

\* lines 49-64: the blocks of one page, from the i-th on
RECURSIVE ScrapePage(_, _, _, _)
ScrapePage(items, i, rs, acc) ==
    IF i > Len(items) THEN acc
    ELSE ScrapePage(items, i + 1, rs,
                    IF items[i].ok /\ ValidLine(items[i], rs)
                    THEN Append(acc, LineOf(items[i]))
                    ELSE acc)

InitScrape ==
    /\ ScrapeIdle
    /\ AppIdle
    /\ pc = "start"
    /\ player_data = NoData
    /\ match_context = [opponent |-> "none"]
    /\ history = None
    /\ prediction = None
    /\ other_data = NoData
    /\ other_history = None
    /\ other_prediction = None
    /\ record = NoRecord
    /\ shown = NoShown

\* line 42: rosters = get_current_rosters()
GetCurrentRosters ==
    /\ pc = "start"
    /\ rosters' \in RosterWorlds
    /\ pc' = "url1"
    /\ UNCHANGED <<lines, scraped, player_data, match_context, history, prediction,
                   pairVars, viewVars, appVars>>

\* lines 45-66: one pass of the loop over the two urls: the request raises, or
\* the blocks of the page are gone through
ScrapeUrl ==
    /\ pc \in {"url1", "url2"}
    /\ \E page \in {None} \cup {[ok |-> TRUE, items |-> p] : p \in ScrapedPages} :
           /\ lines' = IF page.ok THEN ScrapePage(page.items, 1, rosters, lines) ELSE lines
           /\ scraped' = IF page.ok THEN scraped \o page.items ELSE scraped
    /\ pc' = IF pc = "url1" THEN "url2" ELSE "scraped"
    /\ UNCHANGED <<rosters, player_data, match_context, history, prediction,
                   pairVars, viewVars, appVars>>

NextScrape == GetCurrentRosters \/ ScrapeUrl

SpecScrape == InitScrape /\ [][NextScrape]_vars

(***************************************************************************)
(* C19: the lines returned are validated against the rosters               *)
(***************************************************************************)
\* C19: every line returned has a team that is a key of the rosters and a
\* player that is in that team's roster, so a block with no team, with a team
\* outside the rosters or with a team whose roster request failed gives no
\* line; there are no more lines than blocks.
C19_LinesValidated ==
    /\ \A i \in DOMAIN lines :
           /\ lines[i].team \in RosterTeams
           /\ rosters[lines[i].team].ok
           /\ \E k \in DOMAIN rosters[lines[i].team].players :
                  rosters[lines[i].team].players[k] = lines[i].player
    /\ Len(lines) <= Cardinality({j \in DOMAIN scraped :
                                     /\ scraped[j].ok
                                     /\ scraped[j].team.ok
                                     /\ scraped[j].team.name \in RosterTeams
                                     /\ rosters[scraped[j].team.name].ok})

\* C19 witness: the function returned a line, having met a block without
\* team, a block of a team whose roster request failed and a block of a team
\* outside the rosters
C19_Witness ==
    /\ pc = "scraped"
    /\ Len(lines) >= 1
    /\ \E j \in DOMAIN scraped : scraped[j].ok /\ ~scraped[j].team.ok
    /\ \E j \in DOMAIN scraped :
           /\ scraped[j].ok
           /\ scraped[j].team.ok
           /\ scraped[j].team.name \in RosterTeams
           /\ ~rosters[scraped[j].team.name].ok
    /\ \E j \in DOMAIN scraped :
           /\ scraped[j].ok
           /\ scraped[j].team.ok
           /\ scraped[j].team.name \notin RosterTeams

(***************************************************************************)
(* C20: the line of a prediction is its own mean                           *)
(***************************************************************************)
\* C20: every prediction returned has a positive sigma and a Line equal to its
\* own mean, hence P(OVER) = 0.5, Edge = 0 and one confidence star.
C20_LineIsOwnMean ==
    (Returned /\ prediction.ok)
        => /\ Sigma(player_data, match_context, history) > 0
           /\ prediction.Line = prediction.mu
           /\ prediction.POver = 500
           /\ prediction.Edge = 0
           /\ prediction.Confidence = 1

\* C20 witness: a prediction returned for a pasted entry whose Line differs
\* from the betting line pasted
C20_Witness ==
    /\ Returned
    /\ prediction.ok
    /\ IsUnderdog(player_data)
    /\ KillsOf(player_data) > 0
    /\ prediction.Line # KillsOf(player_data)
    /\ prediction.POver = 500

(***************************************************************************)
(* The select boxes of the player projections                              *)
(***************************************************************************)
\* lines 723-774: a run started by changing one select box, no button
\* clicked; the boxes are drawn only when the main area gets as far as them
SelectAndRender ==
    /\ current_match.ok
    /\ Len(current_match.teams) >= 2
    /\ \E sel \in SelectionsOffered(predictions) :
           /\ Cardinality({f \in DOMAIN sel : sel[f] # selections[f]}) <= 1
           /\ selections' = sel
           /\ predictions' = RenderMain(current_match, predictions, sel)
    /\ cache' = NewService
    /\ UNCHANGED <<profiles, current_match, previous, last_load,
                   chat_history, calcVars, pairVars, viewVars, scrapeVars>>

\* the answers of get_player_history with which every player of the sample
\* match is predicted, so that the boxes offer the same options after each load
RenderWorlds ==
    {f \in ProfileWorlds : \A n \in AppNames : f[n] # HistoryOf(<<250>>)}

InitRender == InitApp /\ profiles \in RenderWorlds

NextRender == LoadSampleData \/ SelectAndRender

SpecRender == InitRender /\ [][NextRender]_vars

(***************************************************************************)
(* C21: rendering and the session's list                                   *)
(***************************************************************************)
\* C21: a run that renders the player projections with any choice of team,
\* position, confidence and sort-by selections leaves the session's
\* predictions list as it was, elements and order.
C21_RenderKeepsPredictions ==
    [][SelectAndRender => predictions' = predictions]_vars

\* the part of C21 that holds: a render changes no element of the list, only
\* their order
C21_SameElements ==
    [][SelectAndRender =>
           /\ Len(predictions') = Len(predictions)
           /\ \A i \in DOMAIN predictions :
                  \E j \in DOMAIN predictions : predictions'[j] = predictions[i]]_vars

\* the part of C21 that holds: with a filter chosen the list is left alone
C21_FilteredLeavesList ==
    [][(SelectAndRender /\ ~NoFilter(selections')) => predictions' = predictions]_vars

(***************************************************************************)
(* C22: a load that reports an error                                       *)
(***************************************************************************)
\* lines 613, 693: the two errors a load reports
ErrorReports == {"Could not load match data", "Error parsing Underdog data"}

\* C22: a click whose load reports an error (Analyze Match when
\* get_match_data returns None, Process Underdog Data when it reports "Error
\* parsing Underdog data") leaves current_match and predictions exactly as
\* they were before the click.
C22_ErrorLeavesSession ==
    [][last_load' \in ErrorReports => UNCHANGED <<current_match, predictions>>]_vars

\* the part of C22 that holds: Analyze Match when get_match_data returns None
C22_NoMatchDataLeavesSession ==
    [][last_load' = "Could not load match data"
           => UNCHANGED <<current_match, predictions>>]_vars

(***************************************************************************)
(* C23: the match cache of get_match_data                                  *)
(***************************************************************************)
\* the click is Analyze Match with a URL in the field
AnalyzeUrl(url) ==
    /\ AnalyzeMatch
    /\ \/ last_load' = "Could not load match data"
       \/ last_load' = "ok" /\ current_match'.url = url

\* C23: once a call of get_match_data for a URL has succeeded, every later
\* call for the same URL returns the same cached match without a new request:
\* the next Analyze Match of that URL loads the match the cache held.
C23_SucceededUrlServedFromCache ==
    [][\A url \in UrlInputs :
           (CacheHas(cache, url) /\ AnalyzeUrl(url))
               => /\ last_load' = "ok"
                  /\ current_match' = CacheGet(cache, url)]_vars

\* the part of C23 that holds: the cache holds only extracted matches, each
\* under its own URL
C23_CacheHoldsExtractedMatches ==
    \A e \in cache : e.match.ok /\ e.match.url = e.url /\ e.url # ""

\* the part of C23 that holds: a call that fails returns None and adds no
\* entry to the cache
C23_FailedCallAddsNoEntry ==
    [][last_load' = "Could not load match data" => cache' = EmptyCache]_vars

\* the part of C23 that holds of the method called again on one service: a
\* URL the cache holds is answered from the cache without a request, whatever
\* the page would give now, and the cache stays as it is
C23_CachedUrlNotRequested ==
    \A e \in cache : \A answer \in {None} \cup ScrapedMatches(e.url) :
        LET call == GetMatchData(cache, e.url, answer)
        IN  call.result = e.match /\ ~call.requested /\ call.cache = cache

(***************************************************************************)
(* The analyst chat                                                        *)
(***************************************************************************)
\* the prompts submitted in a session
MaxPrompts == 2

\* str.lower() of the names the matches hold
Lower(name) ==
    CASE name = "Jawgemo" -> "jawgemo"
      [] name = "Derke" -> "derke"
      [] name = "Boaster" -> "boaster"
      [] name = "Team Liquid" -> "team liquid"
      [] name = "Fnatic" -> "fnatic"
      [] name = "Team A" -> "team a"
      [] name = "Team B" -> "team b"

\* a prompt: its text, and which of the words the handler looks for are part
\* of prompt.lower()
Prompts ==
    {[text |-> "How does the model work?", words |-> {"model"}],
     [text |-> "What do the confidence stars mean?", words |-> {"confidence"}],
     [text |-> "help", words |-> {"help"}],
     [text |-> "How will Jawgemo perform?", words |-> {"jawgemo"}],
     [text |-> "Will Fnatic win?", words |-> {"fnatic"}],
     [text |-> "hello", words |-> {}]}

\* lines 860, 864: any(name.lower() in prompt.lower() for ...), which takes
\* the names in order and stops at the first hit; .lower() of a name that is
\* not a text raises AttributeError
RECURSIVE AnyNameIn(_, _)
AnyNameIn(names, prompt) ==
    IF names = <<>> THEN "no"
    ELSE IF Head(names) = NullName THEN "raised"
    ELSE IF Lower(Head(names)) \in prompt.words THEN "yes"
    ELSE AnyNameIn(Tail(names), prompt)

PlayersOf(preds) == [i \in DOMAIN preds |-> preds[i].Player]

\* lines 861-862: the first prediction whose player is named in the prompt
NamedPlayer(preds, prompt) ==
    preds[CHOOSE i \in DOMAIN preds :
              /\ Lower(preds[i].Player) \in prompt.words
              /\ \A j \in 1..(i - 1) : Lower(preds[j].Player) \notin prompt.words]

\* lines 355-381: the three texts of knowledge_base
KnowledgeBase(key) == "**" \o key \o "**"

\* lines 384-416: the report on a player, never empty
GenerateAnalysisText(p) == "## " \o p.Player \o " " \o AnalysisRecommendation(p)

\* lines 418-442: the report on the match, never empty
GenerateMatchAnalysisText(match) == "## match report"

\* lines 851-866: the reply to a prompt; raised says an exception left the
\* handler before a reply was made
Response(prompt, match, preds) ==
    IF prompt.words \cap {"model", "how it works"} # {}
    THEN [raised |-> FALSE, text |-> KnowledgeBase("model")]
    ELSE IF "confidence" \in prompt.words
    THEN [raised |-> FALSE, text |-> KnowledgeBase("confidence")]
    ELSE IF "help" \in prompt.words
    THEN [raised |-> FALSE, text |-> KnowledgeBase("help")]
    ELSE IF AnyNameIn(PlayersOf(preds), prompt) = "yes"
    THEN [raised |-> FALSE, text |-> GenerateAnalysisText(NamedPlayer(preds, prompt))]
    ELSE IF AnyNameIn(PlayersOf(preds), prompt) = "raised"
    THEN [raised |-> TRUE, text |-> ""]
    ELSE IF AnyNameIn(match.teams, prompt) = "yes"
    THEN [raised |-> FALSE, text |-> GenerateMatchAnalysisText(match)]
    ELSE IF AnyNameIn(match.teams, prompt) = "raised"
    THEN [raised |-> TRUE, text |-> ""]
    ELSE [raised |-> FALSE,
          text |-> "I can analyze players, teams, and matchups. Try asking about a specific player or team!"]

\* lines 723-869: a run in which a prompt is submitted. The chat input is drawn
\* at the end of the main area, so only with a current match whose header can
\* be drawn; the run draws the projections first, appends the user's message at
\* line 849, and appends the reply at line 868 unless making it raised
SubmitPrompt ==
    /\ current_match.ok
    /\ Len(current_match.teams) >= 2
    /\ Len(chat_history) < 2 * MaxPrompts
    /\ \E prompt \in Prompts :
           LET shown_list == RenderMain(current_match, predictions, selections)
               response == Response(prompt, current_match, shown_list)
               asked == Append(chat_history, [role |-> "user", content |-> prompt.text])
           IN  /\ predictions' = shown_list
               /\ chat_history' =
                      IF response.raised THEN asked
                      ELSE Append(asked, [role |-> "assistant", content |-> response.text])
    /\ cache' = NewService
    /\ UNCHANGED <<profiles, current_match, previous, last_load, selections,
                   calcVars, pairVars, viewVars, scrapeVars>>

InitChat == InitApp /\ profiles = NoProfiles

\* lines 655-695: the button pressed in a session that chats
ProcessChatData == ProcessUnderdog(ChatTexts)

NextChat == ProcessChatData \/ SubmitPrompt

SpecChat == InitChat /\ [][NextChat]_vars

(***************************************************************************)
(* C24: the shape of chat_history                                          *)
(***************************************************************************)
\* C24: after any sequence of chat prompts and match loads, chat_history has
\* even length and alternates user message then non-empty assistant reply.
C24_UserThenAssistant ==
    /\ Len(chat_history) % 2 = 0
    /\ \A i \in DOMAIN chat_history :
           IF i % 2 = 1 THEN chat_history[i].role = "user"
           ELSE /\ chat_history[i].role = "assistant"
                /\ chat_history[i].content # ""

\* the part of C24 that holds: chat_history is append-only, a load leaves it
\* as it is and a prompt adds the user's message right behind the earlier ones
C24_AppendOnly ==
    [][/\ Len(chat_history') >= Len(chat_history)
       /\ SubSeq(chat_history', 1, Len(chat_history)) = chat_history
       /\ Len(chat_history') > Len(chat_history)
              => chat_history'[Len(chat_history) + 1].role = "user"]_vars

\* the part of C24 that holds: while every team of the current match has a
\* text as its name, each prompt adds the user's message and one non-empty reply
C24_RepliedWhenNamesAreTexts ==
    [][(SubmitPrompt /\ \A i \in DOMAIN current_match.teams :
                            current_match.teams[i] # NullName)
           => /\ Len(chat_history') = Len(chat_history) + 2
              /\ chat_history'[Len(chat_history') - 1].role = "user"
              /\ chat_history'[Len(chat_history')].role = "assistant"
              /\ chat_history'[Len(chat_history')].content # ""]_vars

=============================================================================
